---- MODULE Spec2Model ----
(***************************************************************************)
(* Model of quaternions/quaternion.py: the Hamilton product quat_mult and  *)
(* the z-bucketed cross-section extraction of SphereViz.construct (the     *)
(* z_map build loop, compute_data, and the two dot-cloud updaters driven   *)
(* by the sweep of the ValueTracker z from -RADIUS to RADIUS).             *)
(*                                                                         *)
(* Reals are fixed-point integers: the integer m stands for m / Scale.     *)
(* Scale = 2^7 * 100, so one hundredth is 128 units and every multiple of  *)
(* 25 units is an exactly representable binary fraction, on which          *)
(* Python's round(f, 2) is round-half-to-even of the exact value.          *)
(***************************************************************************)
EXTENDS Integers, Sequences, FiniteSets

VARIABLES
    \* ---- SphereViz.construct ----
    data_points,  \* the sample: sphere.data.copy(), a sequence of coloured points
    z_map,        \* dict: rounded height -> list of coloured points
    i,            \* position of the build loop in data_points (next index)
    z,            \* ValueTracker z: the slice cursor
    data,         \* the value compute_data() returned to the last updater call
    circle_2d,    \* DotCloud of the 2-D view: its data and its centre
    circle_3d,    \* DotCloud of the 3-D view: its data and its centre
    pc,           \* position in construct
    \* ---- quat_mult and its callers ----
    q1, q2, q3,   \* input quaternions
    prod12,       \* quat_mult(q1, q2)
    prod23,       \* quat_mult(q2, q3)
    lhs,          \* quat_mult(quat_mult(q1, q2), q3)
    rhs,          \* quat_mult(q1, quat_mult(q2, q3))
    idR,          \* quat_mult(q1, (1,0,0,0))
    idL,          \* quat_mult((1,0,0,0), q1)
    qpc           \* which products have been computed

sphere_vars == <<data_points, z_map, i, z, data, circle_2d, circle_3d, pc>>
quat_vars == <<q1, q2, q3, prod12, prod23, lhs, rhs, idR, idL, qpc>>
vars == <<data_points, z_map, i, z, data, circle_2d, circle_3d, pc,
          q1, q2, q3, prod12, prod23, lhs, rhs, idR, idL, qpc>>

----------------------------------------------------------------------------
(* Bounds *)

\* longest sample (number of coloured points in data_points)
MaxPoints == 3

\* the three input quaternions together have at most this L1 weight
QuatWeight == 4

----------------------------------------------------------------------------
(* Fixed point *)

\* one hundredth (the precision of round(f, 2)) in fixed-point units
Hundredth == 2^7
Scale == 100 * Hundredth

RADIUS == 1 * Scale
DOT_RADIUS == (2 * Scale) \div 100

Abs(n) == IF n < 0 THEN -n ELSE n

\* a / b on fixed-point values (exact on the values used: b = RADIUS = 1.0)
FDiv(a, b) == (a * Scale) \div b

\* the nearest integer to n / d (d > 0), ties to the even integer
RoundHalfEven(n, d) ==
    LET q == n \div d
        r == n % d
    IN  IF 2 * r < d THEN q
        ELSE IF 2 * r > d THEN q + 1
        ELSE IF q % 2 = 0 THEN q ELSE q + 1

\* round(f, 2): the nearest multiple of one hundredth, as a fixed-point value
float_key(f) == RoundHalfEven(f, Hundredth) * Hundredth

----------------------------------------------------------------------------
(* quat_mult *)

\* quat_mult with the sign of z1*y2 flipped
quat_mult_signflip(qa, qb) ==
    LET w1 == qa[1]  x1 == qa[2]  y1 == qa[3]  z1 == qa[4]
        w2 == qb[1]  x2 == qb[2]  y2 == qb[3]  z2 == qb[4]
    IN  << w1*w2 - x1*x2 - y1*y2 - z1*z2,
           w1*x2 + x1*w2 + y1*z2 + z1*y2,
           w1*y2 - x1*z2 + y1*w2 + z1*x2,
           w1*z2 + x1*y2 - y1*x2 + z1*w2 >>

\* quat_mult with the x and y components of the result exchanged
quat_mult_swapped(qa, qb) ==
    LET w1 == qa[1]  x1 == qa[2]  y1 == qa[3]  z1 == qa[4]
        w2 == qb[1]  x2 == qb[2]  y2 == qb[3]  z2 == qb[4]
    IN  << w1*w2 - x1*x2 - y1*y2 - z1*z2,
           w1*y2 - x1*z2 + y1*w2 + z1*x2,
           w1*x2 + x1*w2 + y1*z2 - z1*y2,
           w1*z2 + x1*y2 - y1*x2 + z1*w2 >>

\* quat_mult(q1, q2): the returned array
quat_mult(qa, qb) ==
    LET w1 == qa[1]  x1 == qa[2]  y1 == qa[3]  z1 == qa[4]
        w2 == qb[1]  x2 == qb[2]  y2 == qb[3]  z2 == qb[4]
    IN  << w1*w2 - x1*x2 - y1*y2 - z1*z2,
           w1*x2 + x1*w2 + y1*z2 - z1*y2,
           w1*y2 - x1*z2 + y1*w2 + z1*x2,
           w1*z2 + x1*y2 - y1*x2 + z1*w2 >>

ZeroQuat == <<0, 0, 0, 0>>
IdentityQuat == <<1, 0, 0, 0>>

L1(q) == Abs(q[1]) + Abs(q[2]) + Abs(q[3]) + Abs(q[4])

\* QuatBall[n]: the integer quaternions of L1 weight at most n
QuatBall ==
    [n \in 0..QuatWeight |->
        {q \in (-n..n) \X (-n..n) \X (-n..n) \X (-n..n) : L1(q) <= n}]

QuatInit ==
    /\ q1 \in QuatBall[QuatWeight]
    /\ q2 \in QuatBall[QuatWeight - L1(q1)]
    /\ q3 \in QuatBall[QuatWeight - L1(q1) - L1(q2)]
    /\ prod12 = ZeroQuat /\ prod23 = ZeroQuat
    /\ lhs = ZeroQuat /\ rhs = ZeroQuat
    /\ idR = ZeroQuat /\ idL = ZeroQuat
    /\ qpc = "in"

MultAB ==
    /\ qpc = "in"
    /\ prod12' = quat_mult(q1, q2)
    /\ qpc' = "ab"
    /\ UNCHANGED <<q1, q2, q3, prod23, lhs, rhs, idR, idL>>
    /\ UNCHANGED sphere_vars

MultBC ==
    /\ qpc = "ab"
    /\ prod23' = quat_mult(q2, q3)
    /\ qpc' = "bc"
    /\ UNCHANGED <<q1, q2, q3, prod12, lhs, rhs, idR, idL>>
    /\ UNCHANGED sphere_vars

MultLeft ==
    /\ qpc = "bc"
    /\ lhs' = quat_mult(prod12, q3)
    /\ qpc' = "left"
    /\ UNCHANGED <<q1, q2, q3, prod12, prod23, rhs, idR, idL>>
    /\ UNCHANGED sphere_vars

MultRight ==
    /\ qpc = "left"
    /\ rhs' = quat_mult(q1, prod23)
    /\ qpc' = "right"
    /\ UNCHANGED <<q1, q2, q3, prod12, prod23, lhs, idR, idL>>
    /\ UNCHANGED sphere_vars

MultIdentityRight ==
    /\ qpc = "right"
    /\ idR' = quat_mult(q1, IdentityQuat)
    /\ qpc' = "idr"
    /\ UNCHANGED <<q1, q2, q3, prod12, prod23, lhs, rhs, idL>>
    /\ UNCHANGED sphere_vars

MultIdentityLeft ==
    /\ qpc = "idr"
    /\ idL' = quat_mult(IdentityQuat, q1)
    /\ qpc' = "idl"
    /\ UNCHANGED <<q1, q2, q3, prod12, prod23, lhs, rhs, idR>>
    /\ UNCHANGED sphere_vars

----------------------------------------------------------------------------
(* SphereViz.construct: the sample *)

ORIGIN == <<0, 0, 0>>

\* RGBA colours of the gradient, channels in 1/255
Palette == {<<252, 98, 85, 255>>, <<88, 196, 221, 255>>}

\* Heights of sampled points: 200 and 300 round to the same hundredth (0.02),
\* 1600 (0.125) is a tie that rounds to the even 0.12, -RADIUS is the pole
\* where the sweep starts.
ZVals == {-RADIUS, 200, 300, 1600}

\* One coloured point of sphere.data: its 'point' and its 'rgba'
ColoredPoints ==
    {[point |-> <<6400, -6400, zv>>, rgba |-> c] : zv \in ZVals, c \in Palette}

SeqsUpTo(S, n) == UNION {[1..k -> S] : k \in 0..n}

\* Values the cursor takes on rendered frames of the sweep; 0 and RADIUS and
\* 1700 (0.1328 -> 0.13) may have no bucket, 1500 (0.1172 -> 0.12) shares the
\* key of the height 1600.
CursorVals == {-RADIUS, 0, 200, 300, 1500, 1600, 1700, RADIUS}

----------------------------------------------------------------------------
(* SphereViz.construct: the z_map build loop *)

HasKey(zm, k) == k \in DOMAIN zm

\* dict store zm[k] = v
DictSet(zm, k, v) == [x \in (DOMAIN zm) \cup {k} |-> IF x = k THEN v ELSE zm[x]]

\* the loop body keyed by the second coordinate instead of the height
bucket_insert_by_y(zm, data_point) ==
    LET point == data_point.point
        z_value == float_key(FDiv(point[2], RADIUS))
    IN  IF ~HasKey(zm, z_value)
        THEN DictSet(zm, z_value, <<data_point>>)
        ELSE DictSet(zm, z_value, Append(zm[z_value], data_point))

\* the loop body keyed by the height without rounding it
bucket_insert_unrounded(zm, data_point) ==
    LET point == data_point.point
        z_value == FDiv(point[3], RADIUS)
    IN  IF ~HasKey(zm, z_value)
        THEN DictSet(zm, z_value, <<data_point>>)
        ELSE DictSet(zm, z_value, Append(zm[z_value], data_point))

\* One iteration of the loop body for data_point
bucket_insert(zm, data_point) ==
    LET point == data_point.point
        z_value == float_key(FDiv(point[3], RADIUS))
    IN  IF ~HasKey(zm, z_value)
        THEN DictSet(zm, z_value, <<data_point>>)
        ELSE DictSet(zm, z_value, Append(zm[z_value], data_point))

EmptyDict == [x \in {} |-> <<>>]

NoData == [is_none |-> TRUE, arr |-> <<>>]
Array(a) == [is_none |-> FALSE, arr |-> a]

\* DotCloud(): no data yet, centred at the origin
NewDotCloud == [data |-> <<>>, center |-> ORIGIN]

\* centres of axes2d (moved to RIGHT * 3) and of axes_3d (group moved to LEFT * 3)
Axes2dCenter == <<3 * Scale, 0, 0>>
Axes3dCenter == <<-3 * Scale, 0, 0>>

Init ==
    /\ data_points \in SeqsUpTo(ColoredPoints, MaxPoints)
    /\ z_map = EmptyDict
    /\ i = 1
    /\ z = -RADIUS
    /\ data = NoData
    /\ circle_2d = NewDotCloud
    /\ circle_3d = NewDotCloud
    /\ pc = "build"
    /\ q1 = ZeroQuat /\ q2 = ZeroQuat /\ q3 = ZeroQuat
    /\ prod12 = ZeroQuat /\ prod23 = ZeroQuat
    /\ lhs = ZeroQuat /\ rhs = ZeroQuat
    /\ idR = ZeroQuat /\ idL = ZeroQuat
    /\ qpc = "unused"

\* for data_point in data_points: ...
BuildStep ==
    /\ pc = "build"
    /\ i <= Len(data_points)
    /\ z_map' = bucket_insert(z_map, data_points[i])
    /\ i' = i + 1
    /\ UNCHANGED <<data_points, z, data, circle_2d, circle_3d, pc>>
    /\ UNCHANGED quat_vars

\* the loop is exhausted; the scene objects are set up
BuildDone ==
    /\ pc = "build"
    /\ i > Len(data_points)
    /\ pc' = "register_2d"
    /\ UNCHANGED <<data_points, z_map, i, z, data, circle_2d, circle_3d>>
    /\ UNCHANGED quat_vars

----------------------------------------------------------------------------
(* compute_data and the updaters *)

\* the display array with every point flattened to height 0
display_array_flat(sphere_arr) ==
    [n \in 1..Len(sphere_arr) |->
        [point  |-> <<sphere_arr[n].point[1], sphere_arr[n].point[2], 0>>,
         rgba   |-> sphere_arr[n].rgba,
         radius |-> DOT_RADIUS]]

\* the display array with the radius 0.03
display_array_radius03(sphere_arr) ==
    [n \in 1..Len(sphere_arr) |->
        [point  |-> <<sphere_arr[n].point[1], sphere_arr[n].point[2],
                      sphere_arr[n].point[3]>>,
         rgba   |-> sphere_arr[n].rgba,
         radius |-> (3 * Scale) \div 100]]

\* The display array built from a bucket
display_array(sphere_arr) ==
    [n \in 1..Len(sphere_arr) |->
        [point  |-> <<sphere_arr[n].point[1], sphere_arr[n].point[2],
                      sphere_arr[n].point[3]>>,
         rgba   |-> sphere_arr[n].rgba,
         radius |-> DOT_RADIUS]]

\* compute_data with z_map.get(z_value, []): a miss gives an empty array
compute_data_empty_on_miss(zm, cursor) ==
    LET z_value == float_key(FDiv(cursor, RADIUS))
    IN  IF ~HasKey(zm, z_value)
        THEN [ret |-> Array(<<>>), z_map |-> zm, z |-> cursor]
        ELSE [ret |-> Array(display_array(zm[z_value])), z_map |-> zm, z |-> cursor]

\* compute_data with z_map.setdefault(z_value, []): a miss creates the bucket
compute_data_setdefault(zm, cursor) ==
    LET z_value == float_key(FDiv(cursor, RADIUS))
    IN  IF ~HasKey(zm, z_value)
        THEN [ret |-> NoData, z_map |-> DictSet(zm, z_value, <<>>), z |-> cursor]
        ELSE [ret |-> Array(display_array(zm[z_value])), z_map |-> zm, z |-> cursor]

\* compute_data(): what it returns and what it leaves in z_map and in z
compute_data(zm, cursor) ==
    LET z_value == float_key(FDiv(cursor, RADIUS))
    IN  IF ~HasKey(zm, z_value)
        THEN [ret |-> NoData, z_map |-> zm, z |-> cursor]
        ELSE [ret |-> Array(display_array(zm[z_value])), z_map |-> zm, z |-> cursor]

\* updater that clears the cloud when there is no data
updater_clear_on_miss(obj, ret) ==
    IF ~ret.is_none
    THEN [data |-> ret.arr, center |-> Axes2dCenter]
    ELSE [data |-> <<>>, center |-> obj.center]

\* updater(obj): obj after the call
updater(obj, ret) ==
    IF ~ret.is_none
    THEN [data |-> ret.arr, center |-> Axes2dCenter]
    ELSE obj

\* updater_3d(obj): obj after the call
updater_3d(obj, ret, cursor) ==
    IF ~ret.is_none
    THEN [data |-> ret.arr,
          center |-> <<Axes3dCenter[1], Axes3dCenter[2], Axes3dCenter[3] + cursor>>]
    ELSE obj

\* circle_2d's updater runs once
RunUpdater2D ==
    LET r == compute_data(z_map, z)
    IN  /\ data' = r.ret
        /\ z_map' = r.z_map
        /\ z' = r.z
        /\ circle_2d' = updater(circle_2d, r.ret)
        /\ UNCHANGED <<data_points, i, circle_3d>>

\* circle_3d's updater runs once
RunUpdater3D ==
    LET r == compute_data(z_map, z)
    IN  /\ data' = r.ret
        /\ z_map' = r.z_map
        /\ circle_3d' = updater_3d(circle_3d, r.ret, r.z)
        /\ z' = r.z
        /\ UNCHANGED <<data_points, i, circle_2d>>

\* circle_2d.add_updater(updater): the framework may call the updater at once
Register2D ==
    /\ pc = "register_2d"
    /\ pc' = "register_3d"
    /\ \/ RunUpdater2D
       \/ UNCHANGED <<data_points, z_map, i, z, data, circle_2d, circle_3d>>
    /\ UNCHANGED quat_vars

\* circle_3d.add_updater(updater_3d)
Register3D ==
    /\ pc = "register_3d"
    /\ pc' = "play"
    /\ \/ RunUpdater3D
       \/ UNCHANGED <<data_points, z_map, i, z, data, circle_2d, circle_3d>>
    /\ UNCHANGED quat_vars

\* self.play(z.animate.set_value(RADIUS)): one frame moves the cursor on
\* (the sweep is monotone from -RADIUS to RADIUS)
Interpolate ==
    /\ pc = "play"
    /\ \E v \in CursorVals :
        /\ v >= z
        /\ z' = v
    /\ pc' = "update_2d"
    /\ UNCHANGED <<data_points, z_map, i, data, circle_2d, circle_3d>>
    /\ UNCHANGED quat_vars

\* the frame's update of circle_2d
Update2D ==
    /\ pc = "update_2d"
    /\ pc' = "update_3d"
    /\ RunUpdater2D
    /\ UNCHANGED quat_vars

\* the frame's update of circle_3d
Update3D ==
    /\ pc = "update_3d"
    /\ pc' = "play"
    /\ RunUpdater3D
    /\ UNCHANGED quat_vars

\* the animation has reached its target; the updaters are removed
EndPlay ==
    /\ pc = "play"
    /\ z = RADIUS
    /\ pc' = "done"
    /\ UNCHANGED <<data_points, z_map, i, z, data, circle_2d, circle_3d>>
    /\ UNCHANGED quat_vars

Next ==
    \/ BuildStep
    \/ BuildDone
    \/ Register2D
    \/ Register3D
    \/ Interpolate
    \/ Update2D
    \/ Update3D
    \/ EndPlay

Spec == Init /\ [][Next]_vars

\* quat_mult has no caller in the scenes; this specification applies it to
\* every bounded input
QuatSpecInit ==
    /\ QuatInit
    /\ data_points = <<>>
    /\ z_map = EmptyDict
    /\ i = 1
    /\ z = -RADIUS
    /\ data = NoData
    /\ circle_2d = NewDotCloud
    /\ circle_3d = NewDotCloud
    /\ pc = "unused"

QuatNext ==
    \/ MultAB
    \/ MultBC
    \/ MultLeft
    \/ MultRight
    \/ MultIdentityRight
    \/ MultIdentityLeft

QuatSpec == QuatSpecInit /\ [][QuatNext]_vars

----------------------------------------------------------------------------
(* Properties of quat_mult, checked under QuatSpec *)

\* C1: the step that computes quat_mult(q1, q2) yields the 4-tuple
\* (w1*w2 - x1*x2 - y1*y2 - z1*z2, w1*x2 + x1*w2 + y1*z2 - z1*y2,
\*  w1*y2 - x1*z2 + y1*w2 + z1*x2, w1*z2 + x1*y2 - y1*x2 + z1*w2),
\* in the order (w, x, y, z), and leaves q1 and q2 as they were.
C1_HamiltonProduct ==
    [][(qpc = "in" /\ qpc' = "ab") =>
          /\ prod12' = << q1[1]*q2[1] - q1[2]*q2[2] - q1[3]*q2[3] - q1[4]*q2[4],
                          q1[1]*q2[2] + q1[2]*q2[1] + q1[3]*q2[4] - q1[4]*q2[3],
                          q1[1]*q2[3] - q1[2]*q2[4] + q1[3]*q2[1] + q1[4]*q2[2],
                          q1[1]*q2[4] + q1[2]*q2[3] - q1[3]*q2[2] + q1[4]*q2[1] >>
          /\ q1' = q1
          /\ q2' = q2]_vars

\* a product whose factors do not commute: (1 + i)(j + k) = 2k
C1_Witness ==
    /\ qpc = "ab"
    /\ q1 = <<1, 1, 0, 0>>
    /\ q2 = <<0, 0, 1, 1>>
    /\ prod12 = <<0, 0, 0, 2>>

\* C2: quat_mult is associative: once both groupings have been computed,
\* quat_mult(quat_mult(q1, q2), q3) equals quat_mult(q1, quat_mult(q2, q3)).
C2_Associative ==
    qpc \in {"right", "idr", "idl"} => lhs = rhs

\* (i j)(i + k) = i (j (i + k)) = -1 + j, three non-commuting factors
C2_Witness ==
    /\ qpc = "right"
    /\ q1 = <<0, 1, 0, 0>>
    /\ q2 = <<0, 0, 1, 0>>
    /\ q3 = <<0, 1, 0, 1>>
    /\ lhs = <<-1, 0, 1, 0>>
    /\ rhs = <<-1, 0, 1, 0>>

\* C3: (1,0,0,0) is a two-sided identity: quat_mult(q1, (1,0,0,0)) = q1 and
\* quat_mult((1,0,0,0), q1) = q1.
C3_Identity ==
    /\ qpc \in {"idr", "idl"} => idR = q1
    /\ qpc = "idl" => idL = q1

C3_Witness ==
    /\ qpc = "idl"
    /\ q1 = <<1, -1, 1, -1>>
    /\ idR = <<1, -1, 1, -1>>
    /\ idL = <<1, -1, 1, -1>>

----------------------------------------------------------------------------
(* Properties of the cross-section extraction, checked under Spec *)

\* the rounded height of a sampled point, and of a cursor value
RoundedHeight(p) == float_key(FDiv(p.point[3], RADIUS))
CursorKey(cursor) == float_key(FDiv(cursor, RADIUS))

\* k is a whole number of hundredths nearest to the value v
NearestHundredth(k, v) ==
    /\ k % Hundredth = 0
    /\ 2 * Abs(v - k) <= Hundredth

\* the sampled points whose rounded height is k, in sample order
SampleBucket(k) == SelectSeq(data_points, LAMBDA p : RoundedHeight(p) = k)

\* a step in which an updater called compute_data on a frame tick
FrameUpdate2D == pc = "update_2d" /\ pc' = "update_3d"
FrameUpdate3D == pc = "update_3d" /\ pc' = "play"

\* C4: after the build loop every point stored in bucket z_map[k] has the
\* rounding key round(z / RADIUS, 2) equal to k (the hundredth nearest to its
\* height): the points of one bucket share one rounded height, and no point
\* is stored under a key other than its own.
C4_BucketKeyIsRoundedHeight ==
    pc # "build" =>
        \A k \in DOMAIN z_map :
            \A n \in 1..Len(z_map[k]) :
                /\ RoundedHeight(z_map[k][n]) = k
                /\ NearestHundredth(k, FDiv(z_map[k][n].point[3], RADIUS))

\* a bucket holding two points of different heights, and the tie 0.125 -> 0.12
C4_Witness ==
    /\ pc = "register_2d"
    /\ HasKey(z_map, 2 * Hundredth)
    /\ HasKey(z_map, 12 * Hundredth)
    /\ Len(z_map[2 * Hundredth]) = 2
    /\ z_map[2 * Hundredth][1].point[3] # z_map[2 * Hundredth][2].point[3]

\* C5: after the build loop the key set of z_map is exactly the set of the
\* rounded heights of the sampled points, and no bucket is empty.
C5_KeySetIsRoundedHeights ==
    pc # "build" =>
        /\ DOMAIN z_map = {RoundedHeight(data_points[n]) : n \in 1..Len(data_points)}
        /\ \A k \in DOMAIN z_map : Len(z_map[k]) > 0

\* three points in two buckets
C5_Witness ==
    /\ pc = "register_2d"
    /\ Len(data_points) = 3
    /\ DOMAIN z_map = {2 * Hundredth, -RADIUS}
    /\ data_points[1].point[3] = 300
    /\ data_points[2].point[3] = -RADIUS
    /\ data_points[3].point[3] = 200

\* C6: on a frame tick whose cursor key is not a key of z_map, compute_data
\* returns None: not an empty array, not the points of another bucket.
C6_MissReturnsNone ==
    [][((FrameUpdate2D \/ FrameUpdate3D) /\ ~HasKey(z_map, CursorKey(z)))
          => data' = NoData]_vars

\* a miss next to an existing bucket, after an earlier hit
C6_Witness ==
    /\ pc = "update_3d"
    /\ z = 1700
    /\ HasKey(z_map, 12 * Hundredth)
    /\ ~HasKey(z_map, CursorKey(z))
    /\ data = NoData
    /\ circle_2d.data # <<>>

\* C7: on a frame tick whose cursor key is a key k of z_map, compute_data
\* returns an array with exactly one entry per sampled point of rounded
\* height k, in sample order, each with that point's x, y, z and RGBA.
C7_HitReturnsBucket ==
    [][((FrameUpdate2D \/ FrameUpdate3D) /\ HasKey(z_map, CursorKey(z))) =>
          LET b == SampleBucket(CursorKey(z))
          IN  /\ ~data'.is_none
              /\ Len(data'.arr) = Len(b)
              /\ Len(b) = Len(z_map[CursorKey(z)])
              /\ \A n \in 1..Len(b) :
                    /\ data'.arr[n].point = b[n].point
                    /\ data'.arr[n].rgba = b[n].rgba]_vars

\* a hit on a bucket of two points of different heights and colours, with a
\* point of another bucket between them in the sample
C7_Witness ==
    /\ pc = "update_3d"
    /\ z = 200
    /\ Len(data_points) = 3
    /\ RoundedHeight(data_points[2]) # 2 * Hundredth
    /\ ~data.is_none
    /\ Len(data.arr) = 2
    /\ data.arr[1].point = <<6400, -6400, 300>>
    /\ data.arr[2].point = <<6400, -6400, 200>>
    /\ data.arr[1].rgba # data.arr[2].rgba

\* C8: every entry of a result of compute_data carries the display radius
\* DOT_RADIUS (0.02), whatever the cursor and the bucket.
C8_RadiusIsDotRadius ==
    ~data.is_none =>
        /\ Len(data.arr) > 0
        /\ \A n \in 1..Len(data.arr) : data.arr[n].radius = DOT_RADIUS

C8_Witness ==
    /\ pc = "play"
    /\ ~data.is_none
    /\ Len(data.arr) = 3
    /\ z = 1500

\* what an updater's cloud holds after a tick at the given cursor
ShownArray(cursor) == display_array(SampleBucket(CursorKey(cursor)))

\* C9: on a frame tick whose cursor key has no bucket each updater leaves its
\* cloud's data and position as they were; on a tick that hits a bucket it
\* replaces the data by that bucket's array; and a cloud changes on no other
\* step.
C9_MissKeepsDisplay ==
    [][/\ FrameUpdate2D =>
            IF HasKey(z_map, CursorKey(z))
            THEN circle_2d'.data = ShownArray(z)
            ELSE circle_2d' = circle_2d
       /\ FrameUpdate3D =>
            IF HasKey(z_map, CursorKey(z))
            THEN circle_3d'.data = ShownArray(z)
            ELSE circle_3d' = circle_3d
       /\ circle_2d' # circle_2d =>
            /\ HasKey(z_map, CursorKey(z))
            /\ pc \in {"register_2d", "update_2d"}
            /\ circle_2d'.data = ShownArray(z)
       /\ circle_3d' # circle_3d =>
            /\ HasKey(z_map, CursorKey(z))
            /\ pc \in {"register_3d", "update_3d"}
            /\ circle_3d'.data = ShownArray(z)]_vars

\* after a hit at 200 and a miss at 1700 both clouds still show the bucket
\* of 0.02, the 3-D one at the height of the hit
C9_Witness ==
    /\ pc = "play"
    /\ z = 1700
    /\ ~HasKey(z_map, CursorKey(z))
    /\ data = NoData
    /\ circle_2d.data = ShownArray(200)
    /\ circle_2d.data # <<>>
    /\ circle_2d.center = Axes2dCenter
    /\ circle_3d.data = ShownArray(200)
    /\ circle_3d.center[3] = 200

\* C10: once the build loop has finished no step changes z_map (key set,
\* content and order of every bucket); a call of compute_data does not change
\* the cursor; and the array a hit returns is not the stored bucket.
C10_ZMapFrozenAfterBuild ==
    [][pc # "build" =>
          /\ z_map' = z_map
          /\ data_points' = data_points
          /\ pc # "play" => z' = z
          /\ ((FrameUpdate2D \/ FrameUpdate3D) /\ ~data'.is_none) =>
                data'.arr # z_map'[CursorKey(z)]]_vars

\* the sweep has ended after hits and misses
C10_Witness ==
    /\ pc = "done"
    /\ Cardinality(DOMAIN z_map) = 2
    /\ data = NoData
    /\ circle_2d.data # <<>>
    /\ circle_3d.center[3] = 1500

====
